---- MODULE Spec2Model ----
(***************************************************************************)
(* Model of the open2fa secret store (open2fa/main.py, class Open2FA):     *)
(* the in-memory secret list, the secrets.json document, the identity and  *)
(* the operations add_secret, remove_secret, remote_pull, remote_push,      *)
(* remote_delete and remote_init, and two invocations sharing a directory. *)
(***************************************************************************)
EXTENDS Integers, Sequences, FiniteSets, TLC

VARIABLES
    secrets,       \* Open2FA.secrets: the in-memory list of TOTPSecret
    secrets_json,  \* the "secrets" list of the document in secrets.json
    o2fa_uuid,     \* Open2FA.o2fa_uuid: None or the UUID of the identity
    last,          \* the call in progress: its inputs, its outcome and the
                   \* state it started from; NoCall between two calls
    uuid_file,     \* the content of open2fa.uuid in the store directory
    procs,         \* the Open2FA objects of two invocations on one directory
    clock,         \* time.time(), in ticks
    tsec           \* a TOTPSecret object with its cached code, if one was made

vars == <<secrets, secrets_json, o2fa_uuid, last, uuid_file, procs, clock, tsec>>

\* ------------------------------------------------------------------ bounds
\* Longest secret list the model lets a store grow to.
MaxSecrets == 3
\* Longest list of items in one remote response.
MaxPull == 2

\* ------------------------------------------------------------- value sets
\* Python's None; a value different from every str.
None == "<None>"
\* Valid base32 TOTP secrets.
Secrets == {"ABCDEFGH", "JBSWY3DP"}
\* Name strings; "None" is the four-letter string, not the None value.
NameStrs == {"None", "a"}
Names == NameStrs \cup {None}
\* User UUIDs an identity can be built from.
Uuids == {"U1", "U2"}

\* str(x) for x an Optional[str].
Str(x) == IF x = None THEN "None" ELSE x

\* TOTPSecret(secret, name), without the cached code.
TOTPSecret(secret, name) == [secret |-> secret, name |-> name]

\* TOTPSecret.json()
json(s) == [secret |-> s.secret, name |-> s.name]

\* ---------------------------------------------------------------- storage
\* write_secrets_json(path, docs): the document replaces the file content.
write_secrets_json(docs) == docs

\* Open2FA.write_secrets: the whole list, as json() dicts.
write_secrets(secs) == write_secrets_json([i \in 1..Len(secs) |-> json(secs[i])])

\* The record of a call. op is the method; a0 and a1 are its two arguments
\* (add_secret: args[0], args[1]; remove_secret: name, sec; set_uuid and
\* __init__: the uuid); flag is skip_confirm, no_save_remote, or whether
\* add_secret asked the user; fetch and resp are the fate of the request and
\* the items answered; reqs are the requests handed to apireq, in order;
\* prompts are the confirmations asked; files are the accesses to
\* open2fa.uuid, in order; pre and pre_json are the list and the file when
\* the call started; ret and exc are what it returned or raised.
\* NoCall: no call is in progress.
NoCall ==
    [op |-> "none", a0 |-> None, a1 |-> None, flag |-> FALSE,
     fetch |-> "none", resp |-> <<>>, reqs |-> <<>>, prompts |-> <<>>,
     files |-> <<>>, pc |-> "none", tmp |-> [exists |-> FALSE, doc |-> <<>>],
     pre |-> <<>>, pre_json |-> <<>>, ret |-> None, exc |-> "none"]

\* open2fa.uuid does not exist.
Absent == "<absent>"

\* The two invocations that share the store directory.
Procs == {1, 2}

\* An invocation that has not constructed its Open2FA object yet.
NotStarted == [pc |-> "start", secrets |-> <<>>, ret |-> None, exc |-> "none"]

Init ==
    /\ secrets = <<>>
    /\ secrets_json = <<>>
    /\ o2fa_uuid = None
    /\ last = NoCall
    /\ uuid_file = Absent
    /\ procs = [p \in Procs |-> NotStarted]
    /\ clock = 0
    /\ tsec = <<>>

\* ---------------------------------------------------------------- add
\* utils.valid_totp_secret
valid_sec(x) == x \in Secrets

\* _uinput(): the typed secret and name, or ValueError.
uinput(typed_sec, typed_name) ==
    IF ~valid_sec(typed_sec) THEN [ok |-> FALSE, sec |-> None, name |-> None]
    ELSE [ok |-> TRUE, sec |-> typed_sec, name |-> typed_name]

\* _add_secinput(*args) for args = (a0, a1).
add_secinput(a0, a1, typed_sec, typed_name) ==
    IF {a0, a1} = {None} THEN uinput(typed_sec, typed_name)
    ELSE IF valid_sec(a0) THEN [ok |-> TRUE, sec |-> a0, name |-> a1]
    ELSE IF valid_sec(a1) THEN [ok |-> TRUE, sec |-> a1, name |-> a0]
    ELSE [ok |-> FALSE, sec |-> None, name |-> None]

\* add_secret with the file written before the new secret is appended.
add_secret_write_first(secs, doc, a0, a1, typed_sec, typed_name) ==
    LET inp == add_secinput(a0, a1, typed_sec, typed_name) IN
    IF ~inp.ok
    THEN [secrets |-> secs, doc |-> doc, ret |-> None, exc |-> "ValueError"]
    ELSE LET new_secret == TOTPSecret(inp.sec, inp.name)
         IN [secrets |-> Append(secs, new_secret), doc |-> write_secrets(secs),
             ret |-> new_secret, exc |-> "none"]

\* add_secret appending to the list of the file as it is at the write.
add_secret_on_file(secs, doc, a0, a1, typed_sec, typed_name) ==
    LET inp == add_secinput(a0, a1, typed_sec, typed_name)
        now == [i \in 1..Len(doc) |-> TOTPSecret(doc[i].secret, doc[i].name)]
    IN
    IF ~inp.ok
    THEN [secrets |-> secs, doc |-> doc, ret |-> None, exc |-> "ValueError"]
    ELSE LET new_secret == TOTPSecret(inp.sec, inp.name)
             appended == Append(now, new_secret)
         IN [secrets |-> appended, doc |-> write_secrets(appended),
             ret |-> new_secret, exc |-> "none"]

\* Open2FA.add_secret: outcome on the list secs and the file content doc.
add_secret(secs, doc, a0, a1, typed_sec, typed_name) ==
    LET inp == add_secinput(a0, a1, typed_sec, typed_name) IN
    IF ~inp.ok
    THEN [secrets |-> secs, doc |-> doc, ret |-> None, exc |-> "ValueError"]
    ELSE LET new_secret == TOTPSecret(inp.sec, inp.name)
             appended == Append(secs, new_secret)
         IN [secrets |-> appended, doc |-> write_secrets(appended),
             ret |-> new_secret, exc |-> "none"]

\* Argument pairs add_secret is called with.
AddArgs ==
    (Secrets \X Names) \cup ({"a"} \X (Secrets \cup {None})) \cup {<<None, None>>}

\* What the user types when _uinput asks; nothing is typed otherwise.
Typed(args) ==
    IF args = <<None, None>> THEN {"ABCDEFGH", "a"} \X {"a"}
    ELSE {<<None, None>>}

AddSecret ==
    /\ last = NoCall
    /\ \E args \in AddArgs : \E typed \in Typed(args) :
      \E out \in {add_secret(secrets, secrets_json, args[1], args[2],
                              typed[1], typed[2])} :
        LET interactive == args = <<None, None>>
        IN /\ Len(out.secrets) <= MaxSecrets
           /\ secrets' = out.secrets
           /\ secrets_json' = out.doc
           /\ last' = [NoCall EXCEPT !.op = "add_secret",
                          !.a0 = args[1], !.a1 = args[2],
                          !.flag = interactive,
                          !.pre = secrets, !.pre_json = secrets_json,
                          !.ret = out.ret, !.exc = out.exc]
           /\ UNCHANGED <<o2fa_uuid, uuid_file, clock, tsec, procs>>

\* ---------------------------------------------------------------- remove
\* The two `if` blocks of the loop body of remove_secret for the entry s:
\* which confirmations are requested for it.
asks_sec(s, sec, skip_confirm) ==
    sec # None /\ Str(s.secret) = sec /\ ~skip_confirm
asks_name(s, name, skip_confirm) ==
    name # None /\ Str(s.name) = name /\ ~skip_confirm

\* The loop of remove_secret over the first n entries of secs. answers is
\* the sequence of values input_confirm returns, in the order it is called.
\* kept is new_secrets; prompts lists the calls of input_confirm, each with
\* the position of the entry asked about, the block asking and the answer.
RECURSIVE remove_loop(_, _, _, _, _, _)
remove_loop(secs, name, sec, skip_confirm, answers, n) ==
    IF n = 0 THEN [kept |-> <<>>, prompts |-> <<>>]
    ELSE LET prev == remove_loop(secs, name, sec, skip_confirm, answers, n - 1)
             s == secs[n]
             ask1 == asks_sec(s, sec, skip_confirm)
             k1 == Len(prev.prompts) + 1
             log1 == IF ask1
                     THEN Append(prev.prompts,
                                 [i |-> n, by |-> "sec", yes |-> answers[k1]])
                     ELSE prev.prompts
             remove1 == /\ sec # None
                        /\ Str(s.secret) = sec
                        /\ (skip_confirm \/ answers[k1])
             ask2 == asks_name(s, name, skip_confirm)
             k2 == Len(log1) + 1
             log2 == IF ask2
                     THEN Append(log1,
                                 [i |-> n, by |-> "name", yes |-> answers[k2]])
                     ELSE log1
             remove2 == /\ name # None
                        /\ Str(s.name) = name
                        /\ (skip_confirm \/ answers[k2])
             remove == remove1 \/ remove2
         IN [kept |-> IF remove THEN prev.kept ELSE Append(prev.kept, s),
             prompts |-> log2]

\* Open2FA.remove_secret: outcome on the list secs and the file content doc.
remove_secret(secs, doc, name, sec, skip_confirm, answers) ==
    LET loop == remove_loop(secs, name, sec, skip_confirm, answers, Len(secs))
        new_secrets == loop.kept
    IN [secrets |-> new_secrets, doc |-> write_secrets(new_secrets),
        ret |-> Len(secs) - Len(new_secrets), exc |-> "none",
        prompts |-> loop.prompts]

\* How many times remove_secret calls input_confirm.
NumPrompts(secs, name, sec, skip_confirm) ==
    Cardinality({i \in 1..Len(secs) : asks_sec(secs[i], sec, skip_confirm)})
    + Cardinality({i \in 1..Len(secs) : asks_name(secs[i], name, skip_confirm)})

RemoveSecret ==
    /\ last = NoCall
    /\ \E name \in Names, sec \in Secrets \cup {None}, skip_confirm \in BOOLEAN :
      \E answers \in [1..NumPrompts(secrets, name, sec, skip_confirm) -> BOOLEAN] :
      \E out \in {remove_secret(secrets, secrets_json, name, sec,
                                 skip_confirm, answers)} :
           /\ secrets' = out.secrets
           /\ secrets_json' = out.doc
           /\ last' = [NoCall EXCEPT !.op = "remove_secret",
                          !.a0 = name, !.a1 = sec, !.flag = skip_confirm,
                          !.prompts = out.prompts,
                          !.pre = secrets, !.pre_json = secrets_json,
                          !.ret = out.ret, !.exc = out.exc]
           /\ UNCHANGED <<o2fa_uuid, uuid_file, clock, tsec, procs>>

\* ---------------------------------------------------------------- identity
\* O2FAUUID.remote.secret: the key derived from the UUID (the last 16 bytes
\* of its SHA-256); different UUIDs give different keys.
KeyOf(uuid) == <<"sha256[16:]", uuid>>

\* The public id taken from the half of the hash that is the key.
o2fa_id_is_key(uuid) == KeyOf(uuid)

\* O2FAUUID.o2fa_id: the public id derived from the UUID (base58 of the
\* first 16 bytes of its SHA-256); neither the UUID nor the key.
o2fa_id(uuid) == <<"b58(sha256[:16])", uuid>>

\* RemoteSecret.encrypt under the key k: the ciphertext determines the
\* plaintext for who holds k and for nobody else.
encrypt(k, plaintext) == [key |-> k, pt |-> plaintext]

\* A string that is no ciphertext of any key (bad base58, bad length).
Malformed == [key |-> <<>>, pt |-> ""]

\* What stands for the exception raised by a failing decrypt.
DecryptFailed == "<decrypt failed>"

\* decrypt without the failure of the unpadding: whatever the bytes give.
decrypt_unchecked(k, ciphertext) == ciphertext.pt

\* RemoteSecret.decrypt under the key k: the plaintext when the ciphertext was
\* made with k; the PKCS7 unpadding or the base58 decoding raises otherwise.
decrypt(k, ciphertext) ==
    IF ciphertext # Malformed /\ ciphertext.key = k THEN ciphertext.pt
    ELSE DecryptFailed

\* Open2FA.set_uuid
set_uuid(uuid) == uuid

SetUuid ==
    /\ last = NoCall
    /\ \E uuid \in Uuids :
        /\ o2fa_uuid' = set_uuid(uuid)
        /\ last' = [NoCall EXCEPT !.op = "set_uuid", !.a0 = uuid,
                       !.pre = secrets, !.pre_json = secrets_json,
                       !.ret = uuid]
        /\ UNCHANGED <<secrets, secrets_json, uuid_file, clock, tsec, procs>>

\* ---------------------------------------------------------------- pull
\* An identity test that never fails.
no_identity_unchecked(uuid) == FALSE

\* `if self.o2fa_uuid is None: raise EX.NoUUIDError()`, the first statement
\* of remote_push, remote_pull and remote_delete.
no_identity(uuid) == uuid = None

\* The request remote_pull hands to apireq.
pull_request(uuid) ==
    [method |-> "GET", header |-> o2fa_id(uuid), totps |-> <<>>]

\* has_secret comparing the secret alone.
has_secret_any_name(secs, secret, name) ==
    \E i \in 1..Len(secs) : secs[i].secret = secret

\* Open2FA.has_secret
\* has_secret looking for the pulled object itself in the list.
has_secret_same_object(secs, secret, name) == FALSE

has_secret(secs, secret, name) ==
    \E i \in 1..Len(secs) : secs[i].secret = secret /\ secs[i].name = name

\* remote_pull returning the new secrets only.
pull_finish_returns_new(secs, doc, pull_secrets, new_secs, no_save_remote) ==
    IF no_save_remote
    THEN [secrets |-> secs, doc |-> doc, ret |-> new_secs, exc |-> "none"]
    ELSE [secrets |-> secs \o new_secs, doc |-> write_secrets(secs \o new_secs),
          ret |-> new_secs, exc |-> "none"]

\* remote_pull without the early return of no_save_remote.
pull_finish_always_saves(secs, doc, pull_secrets, new_secs, no_save_remote) ==
    [secrets |-> secs \o new_secs, doc |-> write_secrets(secs \o new_secs),
     ret |-> pull_secrets, exc |-> "none"]

\* The end of remote_pull, once every item is decrypted: the early return
\* of no_save_remote, else the extension of the list and the write.
pull_finish(secs, doc, pull_secrets, new_secs, no_save_remote) ==
    IF no_save_remote
    THEN [secrets |-> secs, doc |-> doc, ret |-> pull_secrets, exc |-> "none"]
    ELSE [secrets |-> secs \o new_secs, doc |-> write_secrets(secs \o new_secs),
          ret |-> pull_secrets, exc |-> "none"]

\* Open2FA.remote_pull: outcome on the list secs and the file content doc,
\* when the request fails (fetch_ok false) or answers with the items resp.
remote_pull(secs, doc, uuid, fetch_ok, resp, no_save_remote) ==
    LET sent == [reqs |-> <<pull_request(uuid)>>]
        same(e) == [secrets |-> secs, doc |-> doc, ret |-> None, exc |-> e]
    IN
    IF no_identity(uuid) THEN same("NoUUIDError") @@ [reqs |-> <<>>]
    ELSE IF ~fetch_ok THEN same("RemoteError") @@ sent
    ELSE
      LET remote == KeyOf(uuid)
          plain == [i \in 1..Len(resp) |-> decrypt(remote, resp[i].enc_secret)]
      IN IF \E i \in 1..Len(resp) : plain[i] = DecryptFailed
         THEN same("DecryptError") @@ sent
         ELSE
           LET pull_secrets ==
                   [i \in 1..Len(resp) |-> TOTPSecret(plain[i], resp[i].name)]
               new_secs ==
                   SelectSeq(pull_secrets,
                             LAMBDA s : ~has_secret(secs, s.secret, s.name))
           IN pull_finish(secs, doc, pull_secrets, new_secs, no_save_remote)
              @@ sent

\* Items the remote may answer with: named and unnamed secrets encrypted
\* under the key of the UUID U1, and an item with a malformed ciphertext.
RemoteItems ==
    [name : {None, "a"}, enc_secret : {encrypt(KeyOf("U1"), p) : p \in Secrets}]
    \cup {[name |-> "a", enc_secret |-> Malformed]}

\* Sequences over S of length at most n.
SeqUpTo(S, n) == UNION {[1..k -> S] : k \in 0..n}

\* What a request can be answered with; there is no answer when the request
\* is not sent or fails.
Responses(uuid, fetch_ok) ==
    IF uuid # None /\ fetch_ok THEN SeqUpTo(RemoteItems, MaxPull) ELSE {<<>>}

\* Whether the request succeeds; none is sent without a UUID.
Fetches(uuid) == IF uuid = None THEN {FALSE} ELSE BOOLEAN

RemotePull ==
    /\ last = NoCall
    /\ \E no_save_remote \in BOOLEAN, fetch_ok \in Fetches(o2fa_uuid) :
      \E resp \in Responses(o2fa_uuid, fetch_ok) :
      \E out \in {remote_pull(secrets, secrets_json, o2fa_uuid, fetch_ok,
                               resp, no_save_remote)} :
           /\ Len(out.secrets) <= MaxSecrets
           /\ secrets' = out.secrets
           /\ secrets_json' = out.doc
           /\ last' = [NoCall EXCEPT !.op = "remote_pull",
                          !.flag = no_save_remote,
                          !.fetch = IF o2fa_uuid = None THEN "none"
                                    ELSE IF fetch_ok THEN "ok" ELSE "failed",
                          !.resp = resp, !.reqs = out.reqs,
                          !.pre = secrets, !.pre_json = secrets_json,
                          !.ret = out.ret, !.exc = out.exc]
           /\ UNCHANGED <<o2fa_uuid, uuid_file, clock, tsec, procs>>

\* ---------------------------------------------------------------- push
\* `sub in str` on the strings of the model: the filter values below against
\* the names and the secrets.
In(sub, str) ==
    sub = str \/ <<sub, str>> \in {<<"a", "name">>, <<"on", "None">>}

\* `a in getattr(s, a)` for the filter value a: the attribute looked up is
\* the one NAMED by the value of the filter. AttributeError when the secret
\* has no such attribute, TypeError when the attribute is None.
filter_test(s, a) ==
    IF a \notin {"name", "secret"} THEN "AttributeError"
    ELSE LET v == IF a = "name" THEN s.name ELSE s.secret
         IN IF v = None THEN "TypeError"
            ELSE IF In(a, v) THEN "in" ELSE "out"

\* localsecs = [s for s in localsecs if a in getattr(s, a)]: the first entry
\* whose test raises ends the comprehension.
filter_by(localsecs, a) ==
    LET bad == {i \in 1..Len(localsecs) :
                   filter_test(localsecs[i], a) \in {"AttributeError", "TypeError"}}
    IN IF bad # {}
       THEN [exc |-> filter_test(
                        localsecs[CHOOSE i \in bad : \A j \in bad : i <= j], a),
             secs |-> <<>>]
       ELSE [exc |-> "none",
             secs |-> SelectSeq(localsecs, LAMBDA s : filter_test(s, a) = "in")]

\* The filter loop of remote_push: name first, then secret, each when given.
push_select(secs, name, secret) ==
    LET by_name == IF name = None THEN [exc |-> "none", secs |-> secs]
                   ELSE filter_by(secs, name)
    IN IF by_name.exc # "none" \/ secret = None THEN by_name
       ELSE filter_by(by_name.secs, secret)

\* enc_json with the name passed through str().
enc_json_str_name(s, k) == [name |-> Str(s.name), enc_secret |-> encrypt(k, s.secret)]

\* TOTPSecret.enc_json(enc_func) with enc_func the encryption under the key k.
\* enc_json sending no name.
enc_json_unnamed(s, k) == [name |-> None, enc_secret |-> encrypt(k, s.secret)]

enc_json(s, k) == [name |-> s.name, enc_secret |-> encrypt(k, s.secret)]

\* The request remote_push hands to apireq for the selected secrets.
push_request(uuid, localsecs) ==
    [method |-> "POST", header |-> o2fa_id(uuid),
     totps |-> [i \in 1..Len(localsecs) |-> enc_json(localsecs[i], KeyOf(uuid))]]

\* Open2FA.remote_push: outcome on the list secs and the file content doc.
\* answer is what the user types at 'Continue? (y/n)'; resp is the list the
\* remote echoes when the request succeeds.
remote_push(secs, doc, uuid, name, secret, skip_confirm, answer, fetch_ok, resp) ==
    LET end(r, e, q, asked) ==
            [secrets |-> secs, doc |-> doc, ret |-> r, exc |-> e, reqs |-> q,
             prompts |-> IF asked
                         THEN <<[i |-> 0, by |-> "push", yes |-> answer]>>
                         ELSE <<>>]
    IN
    IF no_identity(uuid) THEN end(None, "NoUUIDError", <<>>, FALSE)
    ELSE
      LET sel == push_select(secs, name, secret) IN
      IF sel.exc # "none" THEN end(None, sel.exc, <<>>, FALSE)
      ELSE IF ~skip_confirm /\ ~answer THEN end(<<>>, "none", <<>>, TRUE)
      ELSE
        LET q == <<push_request(uuid, sel.secs)>>
            plain == [i \in 1..Len(resp) |->
                         decrypt(KeyOf(uuid), resp[i].enc_secret)]
        IN IF ~fetch_ok THEN end(None, "RemoteError", q, ~skip_confirm)
           ELSE IF \E i \in 1..Len(resp) : plain[i] = DecryptFailed
           THEN end(None, "DecryptError", q, ~skip_confirm)
           ELSE end([i \in 1..Len(resp) |-> TOTPSecret(plain[i], resp[i].name)],
                    "none", q, ~skip_confirm)

\* Longest list the remote echoes to a push.
MaxEcho == 1

\* Filter pairs (name, secret) remote_push is called with.
PushArgs ==
    {<<None, None>>, <<"a", None>>, <<"name", None>>,
     <<None, "ABCDEFGH">>, <<None, "secret">>}

\* What the remote echoes; nothing when the request is not sent or fails.
Echoes(uuid, fetch_ok) ==
    IF uuid # None /\ fetch_ok THEN SeqUpTo(RemoteItems, MaxEcho) ELSE {<<>>}

RemotePush ==
    /\ last = NoCall
    /\ \E args \in PushArgs, skip_confirm \in BOOLEAN,
          fetch_ok \in Fetches(o2fa_uuid) :
      \E answer \in (IF skip_confirm THEN {TRUE} ELSE BOOLEAN),
         resp \in Echoes(o2fa_uuid, fetch_ok) :
      \E out \in {remote_push(secrets, secrets_json, o2fa_uuid, args[1], args[2],
                               skip_confirm, answer, fetch_ok, resp)} :
           /\ secrets' = out.secrets
           /\ secrets_json' = out.doc
           /\ last' = [NoCall EXCEPT !.op = "remote_push",
                          !.a0 = args[1], !.a1 = args[2], !.flag = skip_confirm,
                          !.fetch = IF out.reqs = <<>> THEN "none"
                                    ELSE IF fetch_ok THEN "ok" ELSE "failed",
                          !.resp = IF out.reqs = <<>> THEN <<>> ELSE resp,
                          !.reqs = out.reqs, !.prompts = out.prompts,
                          !.pre = secrets, !.pre_json = secrets_json,
                          !.ret = out.ret, !.exc = out.exc]
           /\ UNCHANGED <<o2fa_uuid, uuid_file, clock, tsec, procs>>

\* ---------------------------------------------------------------- delete
\* A selector test that never fails.
no_selector_unchecked(secret, name) == FALSE

\* `if secret is None and name is None: raise EX.DelNoNameSec()`
no_selector(secret, name) == secret = None /\ name = None

\* The search loop with the name compared through str().
delsec_index_str_name(secs, secret, name) ==
    LET hit == {i \in 1..Len(secs) :
                   \/ secret # None /\ secs[i].secret = secret
                   \/ name # None /\ Str(secs[i].name) = name}
    IN IF hit = {} THEN 0 ELSE CHOOSE i \in hit : \A j \in hit : i <= j

\* The search loop keeping the last match instead of breaking at the first.
delsec_index_last(secs, secret, name) ==
    LET hit == {i \in 1..Len(secs) :
                   \/ secret # None /\ secs[i].secret = secret
                   \/ name # None /\ secs[i].name = name}
    IN IF hit = {} THEN 0 ELSE CHOOSE i \in hit : \A j \in hit : i >= j

\* The search loop of remote_delete: the position of delsec, the entry at
\* which the loop breaks, or 0 when delsec stays None.
delsec_index(secs, secret, name) ==
    LET hit == {i \in 1..Len(secs) :
                   \/ secret # None /\ secs[i].secret = secret
                   \/ name # None /\ secs[i].name = name}
    IN IF hit = {} THEN 0 ELSE CHOOSE i \in hit : \A j \in hit : i <= j

\* The request remote_delete hands to apireq for the entry delsec.
delete_request(uuid, delsec) ==
    [method |-> "DELETE", header |-> o2fa_id(uuid),
     totps |-> <<[name |-> delsec.name,
                  enc_secret |-> encrypt(KeyOf(uuid), delsec.secret)]>>]

\* The end of remote_delete with the entry also dropped from the local list
\* and the file rewritten.
delete_finish_local(secs, doc, i, fetch_ok, deleted) ==
    LET rest == SubSeq(secs, 1, i - 1) \o SubSeq(secs, i + 1, Len(secs)) IN
    IF ~fetch_ok
    THEN [secrets |-> secs, doc |-> doc, ret |-> None, exc |-> "RemoteError"]
    ELSE [secrets |-> rest, doc |-> write_secrets(rest),
          ret |-> deleted, exc |-> "none"]

\* The end of remote_delete for delsec = secs[i]: apireq raises, or the
\* count the remote answers is returned.
delete_finish(secs, doc, i, fetch_ok, deleted) ==
    IF ~fetch_ok
    THEN [secrets |-> secs, doc |-> doc, ret |-> None, exc |-> "RemoteError"]
    ELSE [secrets |-> secs, doc |-> doc, ret |-> deleted, exc |-> "none"]

\* Open2FA.remote_delete: outcome on the list secs and the file content doc.
\* deleted is the count the remote answers when the request succeeds.
remote_delete(secs, doc, uuid, secret, name, fetch_ok, deleted) ==
    LET raise(e) == [secrets |-> secs, doc |-> doc, ret |-> None, exc |-> e,
                     reqs |-> <<>>]
    IN
    IF no_identity(uuid) THEN raise("NoUUIDError")
    ELSE IF no_selector(secret, name) THEN raise("DelNoNameSec")
    ELSE
      LET i == delsec_index(secs, secret, name) IN
      IF i = 0 THEN raise("DelNoNameSecFound")
      ELSE delete_finish(secs, doc, i, fetch_ok, deleted)
           @@ [reqs |-> <<delete_request(uuid, secs[i])>>]

\* Counts the remote may answer a delete with.
Deleted == {0, 1}

RemoteDelete ==
    /\ last = NoCall
    /\ \E secret \in Secrets \cup {None}, name \in Names,
          fetch_ok \in Fetches(o2fa_uuid) :
      \E deleted \in (IF fetch_ok THEN Deleted ELSE {0}) :
      \E out \in {remote_delete(secrets, secrets_json, o2fa_uuid, secret, name,
                                 fetch_ok, deleted)} :
           /\ secrets' = out.secrets
           /\ secrets_json' = out.doc
           /\ last' = [NoCall EXCEPT !.op = "remote_delete",
                          !.a0 = name, !.a1 = secret,
                          !.fetch = IF out.reqs = <<>> THEN "none"
                                    ELSE IF fetch_ok THEN "ok" ELSE "failed",
                          !.reqs = out.reqs,
                          !.pre = secrets, !.pre_json = secrets_json,
                          !.ret = out.ret, !.exc = out.exc]
           /\ UNCHANGED <<o2fa_uuid, uuid_file, clock, tsec, procs>>

\* ---------------------------------------------------------------- load
\* str.lower on the strings of the model: the names, and what the user
\* types at a prompt (all lower case but 'None' and 'Y').
Lower(str) ==
    CASE str = "None" -> "none"
      [] str = "a" -> "a"
      [] str = "Y" -> "y"
      [] OTHER -> str

\* Position of a lower-cased name in the order of str comparison.
StrRank(str) ==
    CASE str = "a" -> 1
      [] str = "none" -> 2

\* The sort key of __init__: str(s.name).lower()
sort_key(s) == StrRank(Lower(Str(s.name)))

\* list.sort(key=...): stable, ascending; insertion of seq[n] after the
\* sorted first n - 1 elements, behind the elements with an equal key.
RECURSIVE sort(_, _)
sort(seq, n) ==
    IF n = 0 THEN <<>>
    ELSE LET done == sort(seq, n - 1)
             k == Cardinality({i \in 1..Len(done) :
                                 sort_key(done[i]) <= sort_key(seq[n])})
         IN SubSeq(done, 1, k) \o <<seq[n]>> \o SubSeq(done, k + 1, Len(done))

\* read_secrets_json(path)['secrets']: the list of the document.
read_secrets_json(doc) == doc

\* Open2FA.__init__: the list loaded from secrets.json and sorted.
load_secrets(doc) ==
    LET loaded == [i \in 1..Len(read_secrets_json(doc)) |->
                      TOTPSecret(read_secrets_json(doc)[i].secret,
                                 read_secrets_json(doc)[i].name)]
    IN sort(loaded, Len(loaded))

\* A new Open2FA object is constructed on the same directory (a new
\* invocation, or Open2FA.refresh), with or without a UUID.
Construct ==
    /\ last = NoCall
    /\ \E uuid \in Uuids \cup {None} :
        /\ secrets' = load_secrets(secrets_json)
        /\ o2fa_uuid' = uuid
        /\ last' = [NoCall EXCEPT !.op = "__init__", !.a0 = uuid,
                       !.pre = secrets, !.pre_json = secrets_json]
        /\ UNCHANGED <<secrets_json, uuid_file, clock, tsec, procs>>

\* The caller receives the result or the exception of the call.
Return ==
    /\ last # NoCall
    /\ last.pc = "none"
    /\ last' = NoCall
    /\ UNCHANGED <<secrets, secrets_json, o2fa_uuid, uuid_file, clock, tsec, procs>>

Next ==
    \/ Construct
    \/ SetUuid
    \/ AddSecret
    \/ RemoveSecret
    \/ RemotePull
    \/ Return

Spec == Init /\ [][Next]_vars

\* ---------------------------------------------------------------- sync
\* The remote operations of a store that is given an identity and secrets.
NextSync ==
    \/ SetUuid
    \/ AddSecret
    \/ RemotePush
    \/ RemotePull
    \/ RemoteDelete
    \/ Return

SyncSpec == Init /\ [][NextSync]_vars

\* ---------------------------------------------------------------- init
\* open2fa.uuid created and left empty or cut short by a failed write.
Partial == ""

\* Where the creation of open2fa.uuid can raise OSError: at open(), at
\* write() and the close of the `with` block, at os.chmod(); or nowhere.
InitFailures == {"none", "open", "write", "chmod"}

\* What the user may type at the prompt INIT_CONFIRM.
Answers == {"y", "Y", "n", "yes", ""}

\* An answer test that also takes 'yes'.
affirmative_or_yes(typed) == Lower(typed) \in {"y", "yes"}

\* `user_response.lower() == 'y'`
affirmative(typed) == Lower(typed) = "y"

\* The first branch of remote_init: an identity is set already.
init_done(uuid, file) ==
    [uuid |-> uuid, file |-> file, ret |-> None, exc |-> "none",
     files |-> <<>>, prompts |-> <<>>]

\* The second branch: open2fa.uuid exists; O2FAUUID(content) raises
\* ValueError when the content is no UUID.
init_load(uuid, file) ==
    IF file \in Uuids
    THEN [uuid |-> set_uuid(file), file |-> file, ret |-> None, exc |-> "none",
          files |-> <<"exists", "read">>, prompts |-> <<>>]
    ELSE [uuid |-> uuid, file |-> file, ret |-> None, exc |-> "ValueError",
          files |-> <<"exists", "read">>, prompts |-> <<>>]

\* The creation of the identity with a file that is opened and closed but
\* never written to.
init_create_empty_file(typed, new_uuid, fail) ==
    LET adopted == set_uuid(new_uuid)
        asked == <<[i |-> 0, by |-> "init", yes |-> TRUE, typed |-> typed]>>
        end(f, r, e, ops) ==
            [uuid |-> adopted, file |-> f, ret |-> r, exc |-> e,
             files |-> <<"exists">> \o ops, prompts |-> asked]
    IN CASE fail = "open" -> end(Absent, None, "OSError", <<"open">>)
         [] fail = "write" -> end(Partial, None, "OSError", <<"open", "write">>)
         [] fail = "chmod" ->
                end(Partial, None, "OSError", <<"open", "write", "chmod">>)
         [] OTHER -> end(Partial, adopted, "none", <<"open", "write", "chmod">>)

\* The third branch after 'y': set_uuid(str(uuid.uuid4())), then the file is
\* opened, written and chmod-ed; fail is where that raises OSError.
init_create(typed, new_uuid, fail) ==
    LET adopted == set_uuid(new_uuid)
        asked == <<[i |-> 0, by |-> "init", yes |-> TRUE, typed |-> typed]>>
        end(f, r, e, ops) ==
            [uuid |-> adopted, file |-> f, ret |-> r, exc |-> e,
             files |-> <<"exists">> \o ops, prompts |-> asked]
    IN CASE fail = "open" -> end(Absent, None, "OSError", <<"open">>)
         [] fail = "write" -> end(Partial, None, "OSError", <<"open", "write">>)
         [] fail = "chmod" ->
                end(adopted, None, "OSError", <<"open", "write", "chmod">>)
         [] OTHER -> end(adopted, adopted, "none", <<"open", "write", "chmod">>)

\* The third branch after any other answer: INIT_FAIL is printed.
init_cancel(uuid, file, typed) ==
    [uuid |-> uuid, file |-> file, ret |-> None, exc |-> "none",
     files |-> <<"exists">>,
     prompts |-> <<[i |-> 0, by |-> "init", yes |-> FALSE, typed |-> typed]>>]

\* remote_init looking for the file before looking at the identity.
remote_init_file_first(uuid, file, typed, new_uuid, fail) ==
    IF file # Absent THEN init_load(uuid, file)
    ELSE IF uuid # None THEN init_done(uuid, file)
    ELSE IF affirmative(typed) THEN init_create(typed, new_uuid, fail)
    ELSE init_cancel(uuid, file, typed)

\* remote_init without the branch of the existing file.
remote_init_ignores_file(uuid, file, typed, new_uuid, fail) ==
    IF uuid # None THEN init_done(uuid, file)
    ELSE IF affirmative(typed) THEN init_create(typed, new_uuid, fail)
    ELSE init_cancel(uuid, file, typed)

\* Open2FA.remote_init: outcome on the identity uuid and on the content
\* file of open2fa.uuid. typed is what the user types at the prompt;
\* new_uuid is the value of uuid.uuid4(); fail is where the creation of the
\* file raises.
remote_init(uuid, file, typed, new_uuid, fail) ==
    IF uuid # None THEN init_done(uuid, file)
    ELSE IF file # Absent THEN init_load(uuid, file)
    ELSE IF affirmative(typed) THEN init_create(typed, new_uuid, fail)
    ELSE init_cancel(uuid, file, typed)

RemoteInit ==
    /\ last = NoCall
    /\ \E typed \in Answers, new_uuid \in Uuids, fail \in InitFailures :
      \E out \in {remote_init(o2fa_uuid, uuid_file, typed, new_uuid, fail)} :
           /\ o2fa_uuid' = out.uuid
           /\ uuid_file' = out.file
           /\ last' = [NoCall EXCEPT !.op = "remote_init",
                          !.a0 = o2fa_uuid, !.a1 = uuid_file,
                          !.flag = (out.prompts # <<>> /\ out.prompts[1].yes),
                          !.prompts = out.prompts, !.files = out.files,
                          !.pre = secrets, !.pre_json = secrets_json,
                          !.ret = out.ret, !.exc = out.exc]
           /\ UNCHANGED <<secrets, secrets_json, procs, clock, tsec>>

\* The life of the identity of a store: invocations with or without a UUID,
\* set_uuid and remote_init, on a store that secrets are added to.
NextInit ==
    \/ Construct
    \/ SetUuid
    \/ AddSecret
    \/ RemoteInit
    \/ Return

InitSpec == Init /\ [][NextInit]_vars

\* ---------------------------------------------------------------- round
\* remote_pull with saving, called again right after a remote_pull with
\* saving, the remote answering with the same items.
RemotePullAgain ==
    /\ last.op = "remote_pull"
    /\ ~last.flag
    /\ last.fetch = "ok"
    /\ \E out \in {remote_pull(secrets, secrets_json, o2fa_uuid, TRUE,
                               last.resp, FALSE)} :
        /\ secrets' = out.secrets
        /\ secrets_json' = out.doc
        /\ last' = [NoCall EXCEPT !.op = "remote_pull_again",
                       !.a0 = last.pre, !.fetch = "ok",
                       !.resp = last.resp, !.reqs = out.reqs,
                       !.pre = secrets, !.pre_json = secrets_json,
                       !.ret = out.ret, !.exc = out.exc]
    /\ UNCHANGED <<o2fa_uuid, uuid_file, clock, tsec, procs>>

\* remote_pull with saving, called right after an unfiltered remote_push
\* that was sent and answered; the remote stores the items of the push and
\* answers the pull with them.
PullAfterPush ==
    /\ last.op = "remote_push"
    /\ last.a0 = None /\ last.a1 = None
    /\ last.fetch = "ok" /\ last.exc = "none"
    /\ \E out \in {remote_pull(secrets, secrets_json, o2fa_uuid, TRUE,
                               last.reqs[1].totps, FALSE)} :
        /\ secrets' = out.secrets
        /\ secrets_json' = out.doc
        /\ last' = [NoCall EXCEPT !.op = "pull_after_push",
                       !.fetch = "ok",
                       !.resp = last.reqs[1].totps, !.reqs = out.reqs,
                       !.pre = secrets, !.pre_json = secrets_json,
                       !.ret = out.ret, !.exc = out.exc]
    /\ UNCHANGED <<o2fa_uuid, uuid_file, clock, tsec, procs>>

\* A store with an identity that is pushed and pulled, and pulled once more.
NextRound ==
    \/ SetUuid
    \/ AddSecret
    \/ RemotePush
    \/ RemotePull
    \/ RemotePullAgain
    \/ PullAfterPush
    \/ Return

RoundSpec == Init /\ [][NextRound]_vars

\* ---------------------------------------------------------------- codes
\* str.find(sub) on the strings of the model: the first position of sub in
\* str, or -1.
find(str, sub) ==
    IF ~In(sub, str) THEN -1
    ELSE IF sub = str THEN 0
    ELSE 1

\* Open2FA.generate_codes(name): the secrets yielded when the generator is
\* run to its end, in order. (The code of each secret is refreshed too.)
generate_codes(secs, name) ==
    SelectSeq(secs, LAMBDA s : name = None \/ find(Str(s.name), name) # -1)

\* Name filters generate_codes and display_codes are called with.
CodeFilters == {None, "a", "on", "None"}

GenerateCodes ==
    /\ last = NoCall
    /\ \E name \in CodeFilters :
        /\ last' = [NoCall EXCEPT !.op = "generate_codes", !.a0 = name,
                       !.pre = secrets, !.pre_json = secrets_json,
                       !.ret = generate_codes(secrets, name)]
        /\ UNCHANGED <<secrets, secrets_json, o2fa_uuid, uuid_file, clock, tsec, procs>>

\* Largest finite repeat display_codes is called with.
MaxRepeat == 2

\* The repeat argument of display_codes: <<>> is None, <<n>> the number n.
Forever == <<>>

Repeats == {Forever} \cup {<<n>> : n \in (-1)..MaxRepeat}

\* No interrupt arrives while display_codes runs.
NoInterrupt == [cycle |-> 0, at |-> "never"]

\* Where in the loop of display_codes a KeyboardInterrupt can arrive: in
\* cycle c, while the layout is computed (before max() is evaluated), while
\* the rows are generated and printed, or during the sleep after the cycle.
Interrupts ==
    [cycle : 1..(MaxRepeat + 1), at : {"layout", "rows", "sleep"}]

\* The end of display_codes, after the loop or the except clause, with the
\* list written to secrets.json on the way out.
display_exit_saves(secs, doc) == [secrets |-> secs, doc |-> write_secrets(secs)]

\* The end of display_codes, after the loop or the except clause: nothing
\* is written.
display_exit(secs, doc) == [secrets |-> secs, doc |-> doc]

\* Open2FA.display_codes(repeat, name): outcome on the list secs and the
\* file content doc. lines is the height of the terminal; intr is where an
\* interrupt arrives, if the loop gets there. cycles counts the buffers
\* printed, sleeps the calls of time.sleep that ended, shown is the number
\* of rows of the last buffer.
display_codes(secs, doc, repeat, name, lines, intr) ==
    LET all == [i \in 1..Len(secs) |-> Str(secs[i].name)]
        name_pool == IF name = None THEN all
                     ELSE SelectSeq(all, LAMBDA n : find(n, name) # -1)
        TH == IF lines > 4 THEN lines ELSE 4
        rows == generate_codes(secs, name)
        room == IF TH - 4 > 1 THEN TH - 4 ELSE 1
        shown == IF Len(rows) < room THEN Len(rows) ELSE room
        endless == repeat = Forever
        planned == IF endless THEN 0 ELSE IF repeat[1] > 0 THEN repeat[1] ELSE 0
        runs(c) == endless \/ c <= planned
        sleeps_after(c) == endless \/ c < planned
        reached ==
            /\ intr # NoInterrupt
            /\ runs(intr.cycle)
            /\ name_pool = <<>> => (intr.cycle = 1 /\ intr.at = "layout")
            /\ intr.at = "sleep" => sleeps_after(intr.cycle)
        end(e, done, slept, hit) ==
            [ret |-> [cycles |-> done, sleeps |-> slept, interrupted |-> hit,
                      shown |-> IF done = 0 THEN 0 ELSE shown],
             exc |-> e]
    IN IF reached
       THEN display_exit(secs, doc)
            @@ end("none",
                   IF intr.at = "sleep" THEN intr.cycle ELSE intr.cycle - 1,
                   intr.cycle - 1, TRUE)
       ELSE IF (endless \/ planned > 0) /\ name_pool = <<>>
       THEN [secrets |-> secs, doc |-> doc] @@ end("ValueError", 0, 0, FALSE)
       ELSE display_exit(secs, doc)
            @@ end("none", planned, IF planned > 0 THEN planned - 1 ELSE 0,
                   FALSE)

\* Heights of the terminal, in lines.
Heights == {1, 24}

DisplayCodes ==
    /\ last = NoCall
    /\ \E repeat \in Repeats, name \in CodeFilters,
          lines \in Heights, intr \in Interrupts \cup {NoInterrupt} :
      \E out \in {display_codes(secrets, secrets_json, repeat, name, lines, intr)} :
           \* an endless display returns only by an interrupt or an exception
           /\ repeat = Forever => (out.ret.interrupted \/ out.exc # "none")
           /\ secrets' = out.secrets
           /\ secrets_json' = out.doc
           /\ last' = [NoCall EXCEPT !.op = "display_codes",
                          !.a0 = name, !.a1 = repeat,
                          !.pre = secrets, !.pre_json = secrets_json,
                          !.ret = out.ret, !.exc = out.exc]
           /\ UNCHANGED <<o2fa_uuid, uuid_file, clock, tsec, procs>>

\* A store that is loaded, added to, and whose codes are generated and
\* displayed.
NextCodes ==
    \/ Construct
    \/ AddSecret
    \/ GenerateCodes
    \/ DisplayCodes
    \/ Return

CodesSpec == Init /\ [][NextCodes]_vars

\* ---------------------------------------------------------------- totp
\* time.time() is a float: the model counts time in ticks, TicksPerSecond of
\* them to a second, so that times between two whole seconds exist.
TicksPerSecond == 2

\* Latest generation time, in seconds.
MaxNow == 61

\* Largest interval length besides the default, in seconds.
MaxInterval == 4

\* interval_length when the caller gives none.
DefaultInterval == 30

Intervals == (1..MaxInterval) \cup {DefaultInterval}

\* Generation times, in ticks.
Times == 0..(MaxNow * TicksPerSecond)

\* Number of different code strings.
CodeSpace == 3

\* The code string of a secret in an interval: HMAC-SHA1 of the interval
\* under the secret, truncated and reduced to six digits. It is a function
\* of the two; different intervals can have the same code.
hotp(secret, interval) ==
    ((IF secret = "ABCDEFGH" THEN 0 ELSE 1) + interval * interval) % CodeSpace

\* generate_totp_2fa_code taking the remaining time from the whole seconds
\* of the clock.
generate_totp_2fa_code_whole_seconds(secret, cur_time, interval_length) ==
    LET interval == (cur_time \div TicksPerSecond) \div interval_length
    IN [code |-> hotp(secret, interval),
        generated_at |-> cur_time,
        cur_interval |-> interval,
        next_interval_in |->
            (interval_length - ((cur_time \div TicksPerSecond) % interval_length))
                * TicksPerSecond,
        interval_length |-> interval_length,
        next_code_at |-> (interval + 1) * interval_length]

\* generate_totp_2fa_code(secret, interval_length) at clock reading cur_time
\* (in ticks). int(cur_time) is the whole seconds of the reading; cur_time %
\* interval_length keeps the fraction, so next_interval_in is in ticks. The
\* code is the HOTP value of the secret and the interval.
generate_totp_2fa_code(secret, cur_time, interval_length) ==
    LET interval == (cur_time \div TicksPerSecond) \div interval_length
    IN [code |-> hotp(secret, interval),
        generated_at |-> cur_time,
        cur_interval |-> interval,
        next_interval_in |->
            interval_length * TicksPerSecond
                - (cur_time % (interval_length * TicksPerSecond)),
        interval_length |-> interval_length,
        next_code_at |-> (interval + 1) * interval_length]

\* The clock reading and the interval length of one generation.
TotpInit ==
    /\ secrets = <<>>
    /\ secrets_json = <<>>
    /\ o2fa_uuid = None
    /\ uuid_file = Absent
    /\ procs = [p \in Procs |-> NotStarted]
    /\ clock = 0
    /\ tsec = <<>>
    /\ \E now \in Times, L \in Intervals, s \in Secrets :
        last = [NoCall EXCEPT !.op = "time", !.a0 = now, !.a1 = L, !.pre = s]

GenerateTotp ==
    /\ last.op = "time"
    /\ last' = [last EXCEPT !.op = "generate_totp_2fa_code",
                   !.ret = generate_totp_2fa_code(last.pre, last.a0, last.a1)]
    /\ UNCHANGED <<secrets, secrets_json, o2fa_uuid, uuid_file, clock, tsec, procs>>

NextTotp == GenerateTotp

TotpSpec == TotpInit /\ [][NextTotp]_vars

\* ---------------------------------------------------------------- cache
\* TOTPSecret(secret, name) at clock reading t, with the code it generates
\* when it is made.
TOTPSecret_init(secret, name, t) ==
    [secret |-> secret, name |-> name,
     code |-> generate_totp_2fa_code(secret, t, DefaultInterval)]

\* generate_code returning the code whenever the interval has changed.
generate_code_by_interval(s, t) ==
    LET prev_code == s.code
        code == generate_totp_2fa_code(s.secret, t, DefaultInterval)
    IN [obj |-> [s EXCEPT !.code = code],
        returned |-> code.cur_interval # prev_code.cur_interval]

\* TOTPSecret.generate_code() on the object s at clock reading t: the
\* object afterwards, and whether the new code is returned (None is
\* returned otherwise).
generate_code(s, t) ==
    LET prev_code == s.code
        code == generate_totp_2fa_code(s.secret, t, DefaultInterval)
    IN [obj |-> [s EXCEPT !.code = code],
        returned |-> code.code # prev_code.code]

NewTOTPSecret ==
    /\ last = NoCall
    /\ tsec = <<>>
    /\ \E secret \in Secrets, name \in Names :
        /\ tsec' = <<TOTPSecret_init(secret, name, clock)>>
        /\ last' = [NoCall EXCEPT !.op = "TOTPSecret", !.a0 = secret,
                       !.a1 = name]
    /\ UNCHANGED <<secrets, secrets_json, o2fa_uuid, uuid_file, procs, clock>>

\* Time passes between two calls.
Tick ==
    /\ last = NoCall
    /\ clock < MaxNow * TicksPerSecond
    /\ clock' = clock + 1
    /\ UNCHANGED <<secrets, secrets_json, o2fa_uuid, last, uuid_file, procs, tsec>>

GenerateCode ==
    /\ last = NoCall
    /\ tsec # <<>>
    /\ \E out \in {generate_code(tsec[1], clock)} :
        /\ tsec' = <<out.obj>>
        /\ last' = [NoCall EXCEPT !.op = "generate_code", !.a0 = clock,
                       !.pre = tsec[1], !.flag = out.returned,
                       !.ret = IF out.returned THEN out.obj.code ELSE None]
    /\ UNCHANGED <<secrets, secrets_json, o2fa_uuid, uuid_file, procs, clock>>

\* One TOTPSecret object, made at some time and asked for its code as time
\* passes.
NextCache ==
    \/ NewTOTPSecret
    \/ Tick
    \/ GenerateCode
    \/ Return

CacheSpec == Init /\ [][NextCache]_vars

\* ---------------------------------------------------------------- codec
\* RemoteSecret.encrypt and RemoteSecret.decrypt on bytes, at a small scale:
\* a byte has BitsPerByte bits, a cipher block BlockLen bytes.
BitsPerByte == 2

BlockLen == 2

\* Longest plaintext, in characters.
MaxPlain == 3

\* Number of keys besides the all-zero key.
MaxKey == 1

ByteBase == 2 ^ BitsPerByte

\* Radix of the base58 alphabet; a base58 text is the sequence of the
\* positions of its characters in the alphabet ('1' is position 0).
B58Radix == 58

\* UTF-8 at this scale: a byte below HalfByte is a one-byte character, a
\* byte from LeadByte on starts a two-byte character, the bytes between are
\* continuation bytes.
HalfByte == ByteBase \div 2

LeadByte == HalfByte + (ByteBase \div 4)

\* The characters of a plaintext, as code points.
CodePoints == 0..(HalfByte + (ByteBase - LeadByte) * (LeadByte - HalfByte) - 1)

\* str.encode() of one character.
encode_char(c) ==
    IF c < HalfByte THEN <<c>>
    ELSE <<LeadByte + ((c - HalfByte) \div (LeadByte - HalfByte)),
           HalfByte + ((c - HalfByte) % (LeadByte - HalfByte))>>

RECURSIVE str_encode(_)
\* str.encode(): the UTF-8 bytes of a text.
str_encode(s) ==
    IF s = <<>> THEN <<>> ELSE encode_char(Head(s)) \o str_encode(Tail(s))

RECURSIVE bytes_decode(_)
\* bytes.decode(): the text of UTF-8 bytes; ok is FALSE where Python raises
\* UnicodeDecodeError.
bytes_decode(b) ==
    IF b = <<>> THEN [ok |-> TRUE, val |-> <<>>]
    ELSE IF b[1] < HalfByte
    THEN LET rest == bytes_decode(Tail(b))
         IN [ok |-> rest.ok, val |-> <<b[1]>> \o rest.val]
    ELSE IF b[1] >= LeadByte /\ Len(b) >= 2
            /\ b[2] >= HalfByte /\ b[2] < LeadByte
    THEN LET rest == bytes_decode(Tail(Tail(b)))
             c == HalfByte + (b[1] - LeadByte) * (LeadByte - HalfByte)
                      + (b[2] - HalfByte)
         IN [ok |-> rest.ok, val |-> <<c>> \o rest.val]
    ELSE [ok |-> FALSE, val |-> <<>>]

RECURSIVE xor(_, _)
\* a ^ b on two bytes.
xor(a, b) ==
    IF a = 0 /\ b = 0 THEN 0
    ELSE ((a + b) % 2) + 2 * xor(a \div 2, b \div 2)

xor_block(a, b) == [i \in 1..BlockLen |-> xor(a[i], b[i])]

\* The block cipher: a permutation of the blocks for every key. AES is
\* modelled by this property only.
AES_encrypt_block(key, b) ==
    [i \in 1..BlockLen |->
        (xor(b[BlockLen + 1 - i], key[i]) + i) % ByteBase]

AES_decrypt_block(key, c) ==
    [j \in 1..BlockLen |->
        LET i == BlockLen + 1 - j
        IN xor((c[i] + ByteBase * BlockLen - i) % ByteBase, key[i])]

RECURSIVE cbc_encrypt(_, _, _)
\* modes.CBC encryptor: every block is xored with the previous ciphertext
\* block (the iv for the first) and then enciphered.
cbc_encrypt(key, prev, data) ==
    IF data = <<>> THEN <<>>
    ELSE LET c == AES_encrypt_block(key,
                      xor_block(SubSeq(data, 1, BlockLen), prev))
         IN c \o cbc_encrypt(key, c, SubSeq(data, BlockLen + 1, Len(data)))

RECURSIVE cbc_decrypt(_, _, _)
\* modes.CBC decryptor.
cbc_decrypt(key, prev, data) ==
    IF data = <<>> THEN <<>>
    ELSE LET c == SubSeq(data, 1, BlockLen)
         IN xor_block(AES_decrypt_block(key, c), prev)
            \o cbc_decrypt(key, c, SubSeq(data, BlockLen + 1, Len(data)))

\* PKCS7 padder: n bytes of value n, n from 1 to the block length.
pad(data) ==
    LET n == BlockLen - (Len(data) % BlockLen)
    IN data \o [i \in 1..n |-> n]

\* PKCS7 unpadder; ok is FALSE where it raises ValueError.
unpad(data) ==
    IF data = <<>> \/ Len(data) % BlockLen # 0
    THEN [ok |-> FALSE, val |-> <<>>]
    ELSE LET n == data[Len(data)]
         IN IF n >= 1 /\ n <= BlockLen
               /\ \A i \in (Len(data) - n + 1)..Len(data) : data[i] = n
            THEN [ok |-> TRUE, val |-> SubSeq(data, 1, Len(data) - n)]
            ELSE [ok |-> FALSE, val |-> <<>>]

RECURSIVE from_digits(_, _)
\* The number a big-endian digit sequence denotes.
from_digits(ds, radix) ==
    IF ds = <<>> THEN 0
    ELSE from_digits(SubSeq(ds, 1, Len(ds) - 1), radix) * radix + ds[Len(ds)]

RECURSIVE to_digits(_, _)
\* The big-endian digits of a number, none for 0.
to_digits(n, radix) ==
    IF n = 0 THEN <<>>
    ELSE Append(to_digits(n \div radix, radix), n % radix)

RECURSIVE leading_zeros(_)
leading_zeros(ds) ==
    IF ds = <<>> \/ ds[1] # 0 THEN 0 ELSE 1 + leading_zeros(Tail(ds))

\* base58.b58encode: the bytes as a number in radix 58, every leading zero
\* byte kept as one leading '1'.
b58encode(v) ==
    [i \in 1..leading_zeros(v) |-> 0]
        \o to_digits(from_digits(v, ByteBase), B58Radix)

\* base58.b58decode.
b58decode(s) ==
    [i \in 1..leading_zeros(s) |-> 0]
        \o to_digits(from_digits(s, B58Radix), ByteBase)

\* RemoteSecret.encrypt(plaintext) of the RemoteSecret rs (secret and iv).
RemoteSecret_encrypt(rs, plaintext) ==
    b58encode(cbc_encrypt(rs.secret, rs.iv, pad(str_encode(plaintext))))

\* RemoteSecret.decrypt returning the text with its padding.
RemoteSecret_decrypt_padded(rs, ciphertext) ==
    LET raw == b58decode(ciphertext)
    IN IF Len(raw) % BlockLen # 0
       THEN [ret |-> None, exc |-> "ValueError"]
       ELSE LET text == bytes_decode(cbc_decrypt(rs.secret, rs.iv, raw))
            IN IF ~text.ok THEN [ret |-> None, exc |-> "UnicodeDecodeError"]
               ELSE [ret |-> text.val, exc |-> "none"]

\* RemoteSecret.decrypt(ciphertext) of the RemoteSecret rs.
RemoteSecret_decrypt(rs, ciphertext) ==
    LET raw == b58decode(ciphertext)
    IN IF Len(raw) % BlockLen # 0
       THEN [ret |-> None, exc |-> "ValueError"]
       ELSE LET padded == unpad(cbc_decrypt(rs.secret, rs.iv, raw))
            IN IF ~padded.ok THEN [ret |-> None, exc |-> "ValueError"]
               ELSE LET text == bytes_decode(padded.val)
                    IN IF ~text.ok
                       THEN [ret |-> None, exc |-> "UnicodeDecodeError"]
                       ELSE [ret |-> text.val, exc |-> "none"]

\* Keys of a RemoteSecret.
CipherKeys == {[i \in 1..BlockLen |-> (m * i) % ByteBase] : m \in 0..MaxKey}

\* The iv every RemoteSecret gets when none is given: the bytes of
\* '0123456789abcdef'.
DefaultIV == [i \in 1..BlockLen |-> (i - 1) % ByteBase]

IVs == {DefaultIV, [i \in 1..BlockLen |-> ByteBase - 1]}

Plaintexts == SeqUpTo(CodePoints, MaxPlain)

\* A RemoteSecret and the plaintext given to it.
CodecInit ==
    /\ secrets = <<>>
    /\ secrets_json = <<>>
    /\ o2fa_uuid = None
    /\ uuid_file = Absent
    /\ procs = [p \in Procs |-> NotStarted]
    /\ clock = 0
    /\ tsec = <<>>
    /\ \E x \in Plaintexts, k \in CipherKeys, iv \in IVs :
        last = [NoCall EXCEPT !.op = "RemoteSecret", !.a0 = x,
                   !.a1 = [secret |-> k, iv |-> iv]]

Encrypt ==
    /\ last.op = "RemoteSecret"
    /\ last' = [last EXCEPT !.op = "encrypt",
                   !.resp = RemoteSecret_encrypt(last.a1, last.a0)]
    /\ UNCHANGED <<secrets, secrets_json, o2fa_uuid, uuid_file, clock, tsec, procs>>

Decrypt ==
    /\ last.op = "encrypt"
    /\ \E out \in {RemoteSecret_decrypt(last.a1, last.resp)} :
        last' = [last EXCEPT !.op = "decrypt", !.ret = out.ret,
                    !.exc = out.exc]
    /\ UNCHANGED <<secrets, secrets_json, o2fa_uuid, uuid_file, clock, tsec, procs>>

NextCodec ==
    \/ Encrypt
    \/ Decrypt

CodecSpec == CodecInit /\ [][NextCodec]_vars

\* ---------------------------------------------------------------- write
\* What a reader finds where the text of a file ends before the document
\* does: the file is not valid JSON.
Torn == [secret |-> "<torn>", name |-> None]

NoTemp == [exists |-> FALSE, doc |-> <<>>]

\* One step of write_secrets_json that writes into secrets.json itself.
write_secrets_json_in_place(pc, file, tmp, docs) ==
    CASE pc = "open" -> [pc |-> "write", file |-> <<Torn>>, tmp |-> tmp]
      [] pc = "write" -> [pc |-> "rename", file |-> docs, tmp |-> tmp]
      [] pc = "rename" -> [pc |-> "none", file |-> file, tmp |-> tmp]

\* One step of write_secrets_json(path, docs) at position pc: the temporary
\* file is created next to secrets.json, the document is written into it,
\* and it is renamed over secrets.json. The whole call is
\* write_secrets_json above.
write_secrets_json_step(pc, file, tmp, docs) ==
    CASE pc = "open" ->
            [pc |-> "write", file |-> file,
             tmp |-> [exists |-> TRUE, doc |-> <<Torn>>]]
      [] pc = "write" ->
            [pc |-> "rename", file |-> file,
             tmp |-> [exists |-> TRUE, doc |-> write_secrets_json(docs)]]
      [] pc = "rename" ->
            [pc |-> "none", file |-> tmp.doc, tmp |-> NoTemp]

\* add_secret up to its call of write_secrets: the list is changed in
\* memory, the file is still the one of before.
WriteBegin ==
    /\ last = NoCall
    /\ \E args \in AddArgs : \E typed \in Typed(args) :
      \E out \in {add_secret(secrets, secrets_json, args[1], args[2],
                              typed[1], typed[2])} :
        /\ out.exc = "none"
        /\ out.doc # secrets_json
        /\ Len(out.secrets) <= MaxSecrets
        /\ secrets' = out.secrets
        /\ last' = [NoCall EXCEPT !.op = "write_secrets", !.pc = "open",
                       !.a0 = out.doc,
                       !.pre = out.secrets, !.pre_json = secrets_json]
        /\ UNCHANGED <<secrets_json, o2fa_uuid, uuid_file, clock, tsec, procs>>

WriteStep ==
    /\ last.pc \in {"open", "write", "rename"}
    /\ \E out \in {write_secrets_json_step(last.pc, secrets_json, last.tmp,
                                           last.a0)} :
        /\ secrets_json' = out.file
        /\ last' = [last EXCEPT !.pc = out.pc, !.tmp = out.tmp]
    /\ UNCHANGED <<secrets, o2fa_uuid, uuid_file, clock, tsec, procs>>

\* The process dies in the middle of a write: the files stay as they are.
Crash ==
    /\ last.pc \in {"open", "write", "rename"}
    /\ last' = [last EXCEPT !.pc = "crashed"]
    /\ UNCHANGED <<secrets, secrets_json, o2fa_uuid, uuid_file, clock, tsec, procs>>

\* After a crash the program is started again, with nothing in memory.
Restart ==
    /\ last.pc = "crashed"
    /\ secrets' = <<>>
    /\ o2fa_uuid' = None
    /\ last' = NoCall
    /\ UNCHANGED <<secrets_json, uuid_file, clock, tsec, procs>>

NextWrite ==
    \/ Construct
    \/ WriteBegin
    \/ WriteStep
    \/ Crash
    \/ Restart
    \/ Return

WriteSpec == Init /\ [][NextWrite]_vars

\* ---------------------------------------------------------------- race
\* Longest secrets.json the two invocations start from.
MaxStored == 1

\* Invocation p constructs its Open2FA object: the list is loaded from the
\* file as it is now.
Load(p) ==
    /\ procs[p].pc = "start"
    /\ procs' = [procs EXCEPT ![p] = [NotStarted EXCEPT
                     !.pc = "loaded", !.secrets = load_secrets(secrets_json)]]
    /\ UNCHANGED <<secrets, secrets_json, o2fa_uuid, last, uuid_file, clock, tsec>>

\* Invocation p calls add_secret on its object and ends.
Add(p) ==
    /\ procs[p].pc = "loaded"
    /\ \E args \in AddArgs : \E typed \in Typed(args) :
      \E out \in {add_secret(procs[p].secrets, secrets_json, args[1], args[2],
                              typed[1], typed[2])} :
           /\ secrets_json' = out.doc
           /\ procs' = [procs EXCEPT ![p] =
                           [pc |-> "done", secrets |-> out.secrets,
                            ret |-> out.ret, exc |-> out.exc]]
    /\ UNCHANGED <<secrets, o2fa_uuid, last, uuid_file, clock, tsec>>

\* A store directory whose secrets.json holds any short list of entries.
RaceInit ==
    /\ secrets = <<>>
    /\ secrets_json \in SeqUpTo([secret : Secrets, name : Names], MaxStored)
    /\ o2fa_uuid = None
    /\ last = NoCall
    /\ uuid_file = Absent
    /\ procs = [p \in Procs |-> NotStarted]
    /\ clock = 0
    /\ tsec = <<>>

NextRace == \E p \in Procs : Load(p) \/ Add(p)

RaceSpec == RaceInit /\ [][NextRace]_vars
\* ================================================================ claims
\* The (secret, name) pairs of a list, in order.
Pairs(secs) == [i \in 1..Len(secs) |-> <<secs[i].secret, secs[i].name>>]

\* Whether the pair (secret, name) is an entry of the list.
Holds(secs, secret, name) ==
    \E i \in 1..Len(secs) : Pairs(secs)[i] = <<secret, name>>

\* How many entries of the list are the pair pr.
Count(secs, pr) == Cardinality({i \in 1..Len(secs) : Pairs(secs)[i] = pr})

\* The call that has just returned normally changed the list on purpose.
Mutated ==
    /\ last.exc = "none"
    /\ \/ last.op = "add_secret"
       \/ last.op = "remove_secret"
       \/ last.op = "remote_pull" /\ ~last.flag

\* The entry sealed in a remote item: its name and the plaintext encrypted.
Sealed(item) == [secret |-> item.enc_secret.pt, name |-> item.name]

\* The item cannot be decrypted with the key of the UUID.
Undecryptable(item, uuid) ==
    item.enc_secret = Malformed \/ item.enc_secret.key # KeyOf(uuid)

\* C1: no two entries of the secret list have the same (secret, name) pair,
\* in every state reached by add_secret, remove_secret and remote_pull.
C1_UniquePairs ==
    \A i, j \in 1..Len(secrets) :
        i # j => Pairs(secrets)[i] # Pairs(secrets)[j]

\* C2: add_secret(secret, name) on a store holding the pair (secret, name)
\* fails with SecretExistsError and leaves list and file unchanged; with a
\* pair the store does not hold it succeeds and appends the pair.
C2_DuplicateAddRejected ==
    (last.op = "add_secret" /\ last.a0 \in Secrets) =>
        IF Holds(last.pre, last.a0, last.a1)
        THEN /\ last.exc = "SecretExistsError"
             /\ secrets = last.pre
             /\ secrets_json = last.pre_json
        ELSE /\ last.exc = "none"
             /\ Pairs(secrets) = Append(Pairs(last.pre), <<last.a0, last.a1>>)

\* C3: remove_secret with neither name nor secret fails with NoSelectorError
\* and leaves list and file unchanged; it does not return 0 silently.
C3_NoSelectorRejected ==
    (last.op = "remove_secret" /\ last.a0 = None /\ last.a1 = None) =>
        /\ last.exc = "NoSelectorError"
        /\ secrets = last.pre
        /\ secrets_json = last.pre_json

\* C4: remove_secret(name, sec) with the confirmation skipped removes exactly
\* the entries whose secret equals sec (sec given) or whose name equals name
\* (name given), keeps the others in order, and returns the number removed.
C4_RemovesExactlyMatches ==
    (last.op = "remove_secret" /\ last.flag /\ last.exc = "none") =>
        /\ secrets =
             SelectSeq(last.pre,
                       LAMBDA e : ~ \/ last.a1 # None /\ e.secret = last.a1
                                    \/ last.a0 # None /\ e.name = last.a0)
        /\ last.ret = Len(last.pre) - Len(secrets)

\* C5: without force, an entry about which a confirmation was answered
\* negatively is still in the store when remove_secret returns.
C5_DeclinedEntryKept ==
    (last.op = "remove_secret" /\ ~last.flag) =>
        \A pr \in {Pairs(last.pre)[i] : i \in 1..Len(last.pre)} :
            Count(secrets, pr) >=
                Cardinality({i \in 1..Len(last.pre) :
                    /\ Pairs(last.pre)[i] = pr
                    /\ \E k \in 1..Len(last.prompts) :
                          last.prompts[k].i = i /\ ~last.prompts[k].yes})

\* C6: when add_secret, remove_secret or a saving remote_pull has returned,
\* the pairs last written to secrets.json are those of the in-memory list,
\* in the same order.
C6_WrittenIsMemory ==
    Mutated =>
        secrets_json =
            [i \in 1..Len(secrets) |->
                [secret |-> secrets[i].secret, name |-> secrets[i].name]]

\* C6 witness: a mutation returned on a store whose file was stale: the file
\* did not list what the memory held, the list changed, and the file now
\* lists the new memory.
C6_Witness ==
    /\ Mutated
    /\ Pairs(last.pre_json) # Pairs(last.pre)
    /\ secrets # last.pre
    /\ Len(secrets) >= 2
    /\ Pairs(secrets_json) = Pairs(secrets)

\* C7: a saving remote_pull whose fetch succeeded leaves the store before the
\* pull followed by the pulled entries whose pair was not in the local store.
C7_PullAppendsNew ==
    (last.op = "remote_pull" /\ ~last.flag /\ last.exc = "none") =>
        secrets =
            last.pre \o
            SelectSeq([i \in 1..Len(last.resp) |-> Sealed(last.resp[i])],
                      LAMBDA e : ~Holds(last.pre, e.secret, e.name))

\* C7 witness: the pull of one pair already local and one new pair, under
\* the secret of a local entry with another name, added exactly one entry.
C7_Witness ==
    /\ last.op = "remote_pull" /\ ~last.flag /\ last.exc = "none"
    /\ Len(last.resp) = 2
    /\ \E i, j \in 1..2 :
          /\ Holds(last.pre, Sealed(last.resp[i]).secret, Sealed(last.resp[i]).name)
          /\ ~Holds(last.pre, Sealed(last.resp[j]).secret, Sealed(last.resp[j]).name)
          /\ \E k \in 1..Len(last.pre) :
                last.pre[k].secret = Sealed(last.resp[j]).secret
    /\ Len(secrets) = Len(last.pre) + 1

\* C8: remote_pull returns every decrypted remote entry, those already local
\* included, in the order of the response, saving or not.
C8_PullReturnsAll ==
    (last.op = "remote_pull" /\ last.exc = "none") =>
        /\ Len(last.ret) = Len(last.resp)
        /\ \A i \in 1..Len(last.resp) : last.ret[i] = Sealed(last.resp[i])

\* C8 witness: a pull returned two entries of which one was already local.
C8_Witness ==
    /\ last.op = "remote_pull" /\ last.exc = "none"
    /\ Len(last.ret) = 2
    /\ \E i \in 1..2 : Holds(last.pre, last.ret[i].secret, last.ret[i].name)
    /\ \E i \in 1..2 : ~Holds(last.pre, last.ret[i].secret, last.ret[i].name)

\* C9: remote_pull with no_save_remote changes neither the in-memory list
\* nor secrets.json.
C9_NoSavePullFrame ==
    (last.op = "remote_pull" /\ last.flag) =>
        /\ secrets = last.pre
        /\ secrets_json = last.pre_json

\* C9 witness: a pull without saving returned an entry the store does not
\* hold, on a store whose file a write would have changed.
C9_Witness ==
    /\ last.op = "remote_pull" /\ last.flag /\ last.exc = "none"
    /\ \E i \in 1..Len(last.ret) :
          ~Holds(secrets, last.ret[i].secret, last.ret[i].name)
    /\ Pairs(secrets_json) # Pairs(secrets)

\* C10: when the fetch fails or one pulled item fails to decrypt, remote_pull
\* raises and neither the list nor secrets.json has changed.
C10_FailedPullAllOrNothing ==
    (/\ last.op = "remote_pull"
     /\ o2fa_uuid # None
     /\ \/ last.fetch = "failed"
        \/ \E i \in 1..Len(last.resp) : Undecryptable(last.resp[i], o2fa_uuid)) =>
        /\ last.exc # "none"
        /\ secrets = last.pre
        /\ secrets_json = last.pre_json

\* C10 witness: a saving pull raised on its second item, after a first item
\* that decrypts to a pair the store does not hold.
C10_Witness ==
    /\ last.op = "remote_pull" /\ ~last.flag /\ last.exc = "DecryptError"
    /\ Len(last.resp) = 2
    /\ ~Undecryptable(last.resp[1], o2fa_uuid)
    /\ ~Holds(last.pre, Sealed(last.resp[1]).secret, Sealed(last.resp[1]).name)
    /\ Undecryptable(last.resp[2], o2fa_uuid)
    /\ secrets = last.pre

\* ------------------------------------------------- claims on push and delete
\* The call in progress is a remote operation.
Remote == last.op \in {"remote_push", "remote_pull", "remote_delete"}

\* The user answered no to the 'Continue?' of remote_push.
Declined ==
    \E k \in 1..Len(last.prompts) :
        last.prompts[k].by = "push" /\ ~last.prompts[k].yes

\* The entries of secs whose name contains the name filter and whose secret
\* contains the secret filter, each when given; in the order of secs.
Selected(secs, name, secret) ==
    SelectSeq(secs,
              LAMBDA e : /\ name # None => (e.name # None /\ In(name, e.name))
                         /\ secret # None => In(secret, e.secret))

\* The entry e is one remote_delete(secret, name) looks for.
Matches(e, secret, name) ==
    \/ secret # None /\ e.secret = secret
    \/ name # None /\ e.name = name

\* C11: remote_push, remote_pull and remote_delete on a store without an
\* identity raise NoUUIDError, send no request and change neither the list
\* nor secrets.json.
C11_NoIdentityRejected ==
    (Remote /\ o2fa_uuid = None) =>
        /\ last.exc = "NoUUIDError"
        /\ last.reqs = <<>>
        /\ secrets = last.pre
        /\ secrets_json = last.pre_json

\* C11 witness: a push of a store holding a secret, without an identity, has
\* raised NoUUIDError with no request sent.
C11_Witness ==
    /\ last.op = "remote_push" /\ o2fa_uuid = None
    /\ Len(secrets) >= 1
    /\ last.exc = "NoUUIDError"
    /\ last.reqs = <<>>

\* C12: a remote_push that the user does not decline, on a store with an
\* identity, sends one request with exactly the local secrets whose name
\* contains the name filter and whose secret contains the secret filter (all
\* of them without a filter), in store order.
C12_PushSelectsByFilter ==
    (last.op = "remote_push" /\ o2fa_uuid # None /\ ~Declined) =>
        /\ Len(last.reqs) = 1
        /\ [i \in 1..Len(last.reqs[1].totps) |-> Sealed(last.reqs[1].totps[i])]
               = Selected(last.pre, last.a0, last.a1)

\* C13: a remote_push that returned without being declined sent exactly one
\* POST request whose header is the public id of the identity and whose totps
\* has one item per selected secret, in store order, with the name of the
\* secret as it is and a ciphertext the key of the identity decrypts to it.
C13_PushRequest ==
    (last.op = "remote_push" /\ last.exc = "none" /\ ~Declined) =>
        /\ Len(last.reqs) = 1
        /\ last.reqs[1].method = "POST"
        /\ last.reqs[1].header = o2fa_id(o2fa_uuid)
        /\ LET sent == last.reqs[1].totps
               sel == Selected(last.pre, last.a0, last.a1)
           IN /\ Len(sent) = Len(sel)
              /\ \A i \in 1..Len(sent) :
                    /\ sent[i].name = sel[i].name
                    /\ decrypt(KeyOf(o2fa_uuid), sent[i].enc_secret)
                           = sel[i].secret

\* C13 witness: an unfiltered push of a store of two different entries, one
\* of them unnamed, returned after one request of two items.
C13_Witness ==
    /\ last.op = "remote_push" /\ last.exc = "none" /\ ~Declined
    /\ last.a0 = None /\ last.a1 = None
    /\ Len(last.pre) = 2
    /\ last.pre[1] # last.pre[2]
    /\ \E i \in 1..2 : last.pre[i].name = None
    /\ Len(last.reqs) = 1
    /\ Len(last.reqs[1].totps) = 2

\* C14: every request of remote_push, remote_pull and remote_delete carries
\* in its header the public id, which is neither a UUID nor a derived key,
\* and in its items a name and a ciphertext of the secret under the key of
\* the identity, and nothing else.
C14_NothingPrivateSent ==
    Remote =>
        \A k \in 1..Len(last.reqs) :
            LET r == last.reqs[k] IN
            /\ DOMAIN r = {"method", "header", "totps"}
            /\ \A u \in Uuids : r.header # u /\ r.header # KeyOf(u)
            /\ r.header = o2fa_id(o2fa_uuid)
            /\ \A i \in 1..Len(r.totps) :
                  /\ DOMAIN r.totps[i] = {"name", "enc_secret"}
                  /\ \E p \in Secrets :
                        r.totps[i].enc_secret = encrypt(KeyOf(o2fa_uuid), p)

\* C14 witness: a request carrying an item has been sent.
C14_Witness ==
    /\ Remote
    /\ Len(last.reqs) = 1
    /\ Len(last.reqs[1].totps) >= 1
    /\ last.fetch = "ok"

\* C15: remote_push and remote_delete change neither the list nor
\* secrets.json, whether the request succeeds or fails.
C15_PushDeleteFrame ==
    last.op \in {"remote_push", "remote_delete"} =>
        /\ secrets = last.pre
        /\ secrets_json = last.pre_json

\* C15 witness: a remote delete succeeded with one secret deleted remotely,
\* and the entry it named is still in the list.
C15_Witness ==
    /\ last.op = "remote_delete" /\ last.exc = "none"
    /\ last.ret = 1
    /\ \E i \in 1..Len(secrets) : Matches(secrets[i], last.a1, last.a0)

\* C16: remote_delete with an identity and neither name nor secret raises
\* DelNoNameSec and sends no request.
C16_DeleteNoSelector ==
    (last.op = "remote_delete" /\ o2fa_uuid # None
     /\ last.a0 = None /\ last.a1 = None) =>
        /\ last.exc = "DelNoNameSec"
        /\ last.reqs = <<>>

\* C16 witness: such a delete raised on a store holding a secret.
C16_Witness ==
    /\ last.op = "remote_delete" /\ o2fa_uuid # None
    /\ last.a0 = None /\ last.a1 = None
    /\ Len(secrets) >= 1
    /\ last.exc = "DelNoNameSec"

\* C17: remote_delete with an identity and a selector that no local entry
\* matches raises DelNoNameSecFound and sends no request.
C17_DeleteNoMatch ==
    (/\ last.op = "remote_delete" /\ o2fa_uuid # None
     /\ ~(last.a0 = None /\ last.a1 = None)
     /\ \A i \in 1..Len(last.pre) : ~Matches(last.pre[i], last.a1, last.a0)) =>
        /\ last.exc = "DelNoNameSecFound"
        /\ last.reqs = <<>>

\* C17 witness: a delete by the name 'None' raised DelNoNameSecFound on a
\* store whose only entry is unnamed.
C17_Witness ==
    /\ last.op = "remote_delete" /\ o2fa_uuid # None
    /\ last.a0 = "None" /\ last.a1 = None
    /\ Len(last.pre) = 1 /\ last.pre[1].name = None
    /\ last.exc = "DelNoNameSecFound"
    /\ last.reqs = <<>>

\* C18: a remote_delete that finds a match sends one DELETE request of one
\* item: the name and the encrypted secret of the first entry, in list
\* order, whose secret or whose name is the one given.
C18_DeleteSendsFirstMatch ==
    (/\ last.op = "remote_delete" /\ o2fa_uuid # None
     /\ \E i \in 1..Len(last.pre) : Matches(last.pre[i], last.a1, last.a0)) =>
        LET first == CHOOSE i \in 1..Len(last.pre) :
                        /\ Matches(last.pre[i], last.a1, last.a0)
                        /\ \A j \in 1..(i - 1) :
                              ~Matches(last.pre[j], last.a1, last.a0)
        IN /\ Len(last.reqs) = 1
           /\ last.reqs[1].method = "DELETE"
           /\ last.reqs[1].totps =
                 <<[name |-> last.pre[first].name,
                    enc_secret |-> encrypt(KeyOf(o2fa_uuid),
                                           last.pre[first].secret)]>>

\* C18 witness: a delete by secret and by name on a store where the name
\* matches an entry ahead of a different entry that the secret matches; the
\* item sent is the first of the two.
C18_Witness ==
    /\ last.op = "remote_delete" /\ o2fa_uuid # None
    /\ last.a0 # None /\ last.a1 # None
    /\ \E i, j \in 1..Len(last.pre) :
          /\ i < j
          /\ last.pre[i].name = last.a0 /\ last.pre[i].secret # last.a1
          /\ last.pre[j].secret = last.a1 /\ last.pre[j].name # last.a0
          /\ \A h \in 1..(i - 1) : ~Matches(last.pre[h], last.a1, last.a0)
          /\ Len(last.reqs) = 1
          /\ Sealed(last.reqs[1].totps[1]) = last.pre[i]

C20_LastWriterWins ==
    [][\A p \in Procs :
          (procs[p].pc = "loaded" /\ procs'[p].pc = "done"
           /\ procs'[p].exc = "none") =>
              Pairs(secrets_json') =
                  Append(Pairs(procs[p].secrets),
                         <<procs'[p].ret.secret, procs'[p].ret.name>>)]_vars

\* C20 witness: both invocations loaded the same file, each added a
\* different pair that the file did not hold, both adds returned normally,
\* and secrets.json holds one of the two pairs and not the other.
C20_Witness ==
    /\ \A p \in Procs : procs[p].pc = "done" /\ procs[p].exc = "none"
    /\ SubSeq(procs[1].secrets, 1, Len(procs[1].secrets) - 1)
           = SubSeq(procs[2].secrets, 1, Len(procs[2].secrets) - 1)
    /\ procs[1].ret # procs[2].ret
    /\ \A p \in Procs :
          ~Holds(SubSeq(procs[p].secrets, 1, Len(procs[p].secrets) - 1),
                 procs[p].ret.secret, procs[p].ret.name)
    /\ \E p, q \in Procs :
          /\ Holds(secrets_json, procs[p].ret.secret, procs[p].ret.name)
          /\ ~Holds(secrets_json, procs[q].ret.secret, procs[q].ret.name)

\* ------------------------------------------------------ claims on the order
\* C22: in every reachable state of a store the secret list is sorted by the
\* lower-cased name: no entry is followed by one with a smaller key.
C22_SortedByName ==
    \A i \in 1..(Len(secrets) - 1) :
        sort_key(secrets[i]) <= sort_key(secrets[i + 1])

\* ------------------------------------------------------- claims on the init
\* C27: remote_init on a store with an identity asks nothing, does not touch
\* open2fa.uuid, and leaves the identity and the file as they were.
C27_InitWithIdentityNoOp ==
    (last.op = "remote_init" /\ last.a0 # None) =>
        /\ last.prompts = <<>>
        /\ last.files = <<>>
        /\ o2fa_uuid = last.a0
        /\ uuid_file = last.a1
        /\ last.exc = "none"

\* C27 witness: remote_init returned on a store whose identity is not the
\* UUID that open2fa.uuid holds.
C27_Witness ==
    /\ last.op = "remote_init" /\ last.a0 \in Uuids
    /\ last.a1 \in Uuids /\ last.a1 # last.a0
    /\ o2fa_uuid = last.a0

\* C28: remote_init on a store without identity, with an open2fa.uuid that
\* holds a UUID, adopts that UUID, asks nothing and leaves the file as it is.
C28_InitAdoptsFile ==
    (last.op = "remote_init" /\ last.a0 = None /\ last.a1 \in Uuids) =>
        /\ o2fa_uuid = last.a1
        /\ last.prompts = <<>>
        /\ uuid_file = last.a1
        /\ \A k \in 1..Len(last.files) : last.files[k] \in {"exists", "read"}

\* C28 witness: an identity was adopted from the file.
C28_Witness ==
    /\ last.op = "remote_init" /\ last.a0 = None /\ last.a1 \in Uuids
    /\ o2fa_uuid = last.a1
    /\ last.files = <<"exists", "read">>

\* C29: remote_init without identity and without open2fa.uuid, answered 'y'
\* or 'Y' and with the file created without error, ends with an identity and
\* with open2fa.uuid holding the string of the UUID of that identity.
C29_InitCreates ==
    (/\ last.op = "remote_init" /\ last.a0 = None /\ last.a1 = Absent
     /\ last.prompts # <<>> /\ last.prompts[1].typed \in {"y", "Y"}
     /\ last.exc = "none") =>
        /\ o2fa_uuid \in Uuids
        /\ uuid_file = o2fa_uuid
        /\ last.ret = o2fa_uuid

\* C29 witness: an identity was created on the answer 'Y'.
C29_Witness ==
    /\ last.op = "remote_init" /\ last.a0 = None /\ last.a1 = Absent
    /\ last.prompts # <<>> /\ last.prompts[1].typed = "Y"
    /\ last.exc = "none"
    /\ o2fa_uuid \in Uuids /\ uuid_file = o2fa_uuid

\* C30: remote_init without identity and without open2fa.uuid, answered with
\* anything but 'y' or 'Y', leaves the store without identity and creates no
\* open2fa.uuid.
C30_InitDeclined ==
    (/\ last.op = "remote_init" /\ last.a0 = None /\ last.a1 = Absent
     /\ last.prompts # <<>> /\ last.prompts[1].typed \notin {"y", "Y"}) =>
        /\ o2fa_uuid = None
        /\ uuid_file = Absent
        /\ last.files = <<"exists">>
        /\ last.exc = "none"

\* C30 witness: the answer 'yes' left the store without identity and file.
C30_Witness ==
    /\ last.op = "remote_init" /\ last.a0 = None /\ last.a1 = Absent
    /\ last.prompts # <<>> /\ last.prompts[1].typed = "yes"
    /\ o2fa_uuid = None /\ uuid_file = Absent

\* ------------------------------------------------------ claims on the codes
\* C25: generate_codes(name) yields, in store order, exactly the stored
\* secrets that have a name containing the filter, and every stored secret
\* without a filter.
C25_GenerateBySubstring ==
    (last.op = "generate_codes") =>
        last.ret =
            SelectSeq(last.pre,
                      LAMBDA e : last.a0 = None
                                 \/ (e.name # None /\ In(last.a0, e.name)))

\* C26: when an interrupt arrives in the loop of display_codes, the call
\* returns normally, and the secret list and secrets.json are those of
\* before the call.
C26_DisplayInterruptFrame ==
    (last.op = "display_codes" /\ last.ret.interrupted) =>
        /\ last.exc = "none"
        /\ secrets = last.pre
        /\ secrets_json = last.pre_json

\* C26 witness: an endless display of a store of two secrets, whose file
\* does not list them in the order of the memory, was interrupted during the
\* sleep after its second cycle.
C26_Witness ==
    /\ last.op = "display_codes" /\ last.a1 = Forever
    /\ last.ret.interrupted
    /\ last.ret.cycles = 2 /\ last.ret.sleeps = 1
    /\ Len(secrets) = 2
    /\ Pairs(secrets_json) # Pairs(secrets)

\* ------------------------------------------------------- claims on the TOTP
\* C24: for a generation at time now with interval length L, next_interval_in
\* is L - (now mod L), it is greater than 0 and at most L, and it is L
\* exactly when now is a multiple of L. (Times are in ticks.)
C24_SecondsUntilNext ==
    (last.op = "generate_totp_2fa_code") =>
        LET now == last.a0
            L == last.a1 * TicksPerSecond
            nin == last.ret.next_interval_in
        IN /\ nin = L - (now % L)
           /\ 0 < nin /\ nin <= L
           /\ (nin = L) <=> (now % L = 0)

\* C24 witness: a code was generated with the default interval half-way
\* through the first second of an interval that is not the first.
C24_Witness ==
    /\ last.op = "generate_totp_2fa_code"
    /\ last.a1 = DefaultInterval
    /\ last.a0 > 0
    /\ last.a0 % TicksPerSecond # 0
    /\ (last.a0 \div TicksPerSecond) % last.a1 = 0
    /\ last.a0 \div TicksPerSecond > 0
    /\ last.ret.next_interval_in < last.a1 * TicksPerSecond

\* ------------------------------------------------------ claims on the codec
\* C23: decrypting what a RemoteSecret encrypted, with the same key and iv,
\* raises nothing and returns the plaintext.
C23_CodecRoundTrip ==
    (last.op = "decrypt") =>
        /\ last.exc = "none"
        /\ last.ret = last.a0

\* C23 witness: a plaintext with a two-byte character that fills whole
\* blocks, encrypted under a given iv to a text with a leading '1', was
\* decrypted.
C23_Witness ==
    /\ last.op = "decrypt"
    /\ last.a1.iv # DefaultIV
    /\ \E i \in 1..Len(last.a0) : last.a0[i] >= HalfByte
    /\ Len(str_encode(last.a0)) % BlockLen = 0
    /\ Len(last.a0) > 0
    /\ last.resp[1] = 0
    /\ last.ret = last.a0

\* ------------------------------------------------------ claims on the write
\* C21: at every point of a write of the store, a crash included,
\* secrets.json holds the complete document of before the write or the
\* complete new document.
C21_AtomicWrite ==
    (last.op = "write_secrets") =>
        \/ secrets_json = last.pre_json
        \/ secrets_json = last.a0

\* C21 witness: the process crashed after the new document was written to
\* the temporary file and before the rename; secrets.json holds the
\* previous document, which has an entry and differs from the new one.
C21_Witness ==
    /\ last.op = "write_secrets" /\ last.pc = "crashed"
    /\ last.tmp.exists /\ last.tmp.doc = last.a0
    /\ secrets_json = last.pre_json
    /\ last.pre_json # last.a0
    /\ Len(last.pre_json) >= 1

\* ---------------------------------------------------- claims on the display
\* C36: display_codes with repeat = n that no interrupt ends performs
\* exactly n refresh cycles for n >= 1, with a sleep between consecutive
\* cycles and none after the last, and no cycle for n <= 0.
C36_DisplayCycles ==
    (/\ last.op = "display_codes"
     /\ last.a1 # Forever
     /\ ~last.ret.interrupted) =>
        LET n == last.a1[1]
        IN /\ last.ret.cycles = (IF n >= 1 THEN n ELSE 0)
           /\ last.ret.sleeps = (IF n >= 1 THEN n - 1 ELSE 0)

\* C37: display_codes with a finite repeat that no interrupt ends returns
\* normally, whatever the store holds and whatever the name filter is.
C37_DisplayReturns ==
    (/\ last.op = "display_codes"
     /\ last.a1 # Forever
     /\ ~last.ret.interrupted) =>
        last.exc = "none"

\* ------------------------------------------------- claims on the code cache
\* C31: generate_code replaces the cached code by the code of the current
\* time; it returns that code exactly when its code string differs from the
\* one cached before, and None otherwise; a call in the interval of the
\* cached code returns None.
C31_GenerateCodeCache ==
    (last.op = "generate_code") =>
        LET prev == last.pre.code
            cur == tsec[1].code
        IN /\ cur.generated_at = last.a0
           /\ cur.cur_interval = (last.a0 \div TicksPerSecond) \div DefaultInterval
           /\ cur.code = hotp(last.pre.secret, cur.cur_interval)
           /\ last.flag <=> (cur.code # prev.code)
           /\ last.flag => (cur = last.ret)
           /\ ~last.flag => (None = last.ret)
           /\ (cur.cur_interval = prev.cur_interval) => ~last.flag

\* C31 witness: generate_code was called in a later interval than the one
\* of the cached code, the two intervals have the same code string, and
\* None was returned.
C31_Witness ==
    /\ last.op = "generate_code"
    /\ ~last.flag
    /\ tsec[1].code.cur_interval > last.pre.code.cur_interval
    /\ tsec[1].code.generated_at > last.pre.code.generated_at

\* ---------------------------------------------- claims on the confirmations
\* C32: remove_secret without force asks for confirmation exactly once
\* about every stored entry whose secret is the given secret or whose name
\* is the given name, and never about another entry.
C32_AsksOncePerMatch ==
    (last.op = "remove_secret" /\ ~last.flag /\ last.exc = "none") =>
        \A i \in 1..Len(last.pre) :
            LET e == last.pre[i]
                matches == \/ last.a1 # None /\ e.secret = last.a1
                           \/ last.a0 # None /\ e.name = last.a0
                asked == Cardinality({k \in 1..Len(last.prompts) :
                                         last.prompts[k].i = i})
            IN asked = (IF matches THEN 1 ELSE 0)

\* C35: remove_secret with a name and no secret leaves every entry that was
\* stored without a name in the store.
C35_UnnamedSurvivesNameRemoval ==
    (last.op = "remove_secret" /\ last.a0 # None /\ last.a1 = None
     /\ last.exc = "none") =>
        SelectSeq(secrets, LAMBDA e : e.name = None)
            = SelectSeq(last.pre, LAMBDA e : e.name = None)

\* ----------------------------------------------- claims on the round trips
\* C33: a remote_pull with saving that directly follows a remote_pull with
\* saving and gets the same answer leaves the secret list as the first
\* pull left it.
C33_PullIdempotent ==
    (last.op = "remote_pull_again") => secrets = last.pre

\* C33 witness: the first pull appended to a store that was not empty, the
\* answer holds the same item twice, and the second pull returned.
C33_Witness ==
    /\ last.op = "remote_pull_again" /\ last.exc = "none"
    /\ Len(last.a0) >= 1
    /\ Len(last.pre) > Len(last.a0)
    /\ Len(last.resp) = 2 /\ last.resp[1] = last.resp[2]

\* C34: a remote_pull with saving that follows an unfiltered remote_push,
\* the remote answering with the items it received, returns normally and
\* adds no entry to the local store.
C34_PushThenPullNoOp ==
    (last.op = "pull_after_push") =>
        /\ last.exc = "none"
        /\ secrets = last.pre

\* C34 witness: a store with a named and an unnamed entry was pushed and
\* pulled back.
C34_Witness ==
    /\ last.op = "pull_after_push" /\ last.exc = "none"
    /\ Len(last.resp) >= 2
    /\ \E i \in 1..Len(secrets) : secrets[i].name = None
    /\ \E i \in 1..Len(secrets) : secrets[i].name # None
    /\ Len(last.ret) = Len(secrets)
====
